---- MODULE Spec2Model ----
(***************************************************************************)
(* Model of skuid-cli's retrieve command (cmd/retrieve.go): the plans are  *)
(* executed, every returned ZIP payload is spooled to a temporary file and *)
(* unzipped into the target directory, and a file that was already written *)
(* in the same run is merged (JSON merge patch) instead of overwritten.    *)
(*                                                                         *)
(* Paths are sequences of path segments; file contents are either opaque   *)
(* non-JSON bytes or the text of a JSON object, kept as the ordered list   *)
(* of its members so that parsing, merging and serialising are not the     *)
(* identity.                                                               *)
(***************************************************************************)
EXTENDS Integers, Sequences, FiniteSets, TLC

(***************************************************************************)
(* Bounds of the model.                                                    *)
(***************************************************************************)
\* number of archive entries of one run, over all its archives
MaxEntries == 3
\* number of distinct scalar values in the documents given to the merge
MaxLits == 2
\* number of files and directories under the path given to Archive
MaxWalk == 3

(***************************************************************************)
(* JSON text.  A value is a literal (string, number, boolean: anything     *)
(* that is neither null nor an object), null, or an object whose members   *)
(* are listed in the order in which they appear in the text.               *)
(***************************************************************************)
Lit(s) == [t |-> "lit", lit |-> s]
Null == [t |-> "null"]
Obj(members) == [t |-> "obj", members |-> members]
Member(k, v) == [k |-> k, v |-> v]

IsObj(v) == v.t = "obj"
IsNull(v) == v.t = "null"

\* the keys of an object text, and the value a key is bound to
KeysOf(o) == {o.members[i].k : i \in 1..Len(o.members)}
Get(o, k) == o.members[CHOOSE i \in 1..Len(o.members) : o.members[i].k = k].v

\* Keys in ascending byte order: Go's string comparison keyA < keyB.
KeyOrder == <<"extra", "id", "name", "sub">>
KeyRank(k) == CHOOSE i \in 1..Len(KeyOrder) : KeyOrder[i] = k
StringLess(keyA, keyB) == KeyRank(keyA) < KeyRank(keyB)

\* nameFirstKeySorter.Sort: keyA goes before keyB
NameFirstSort(keyA, keyB) ==
    IF keyA = "name" THEN TRUE
    ELSE IF keyB = "name" THEN FALSE
    ELSE StringLess(keyA, keyB)

\* The keys of a map in the order the configured jsoniter API writes them
\* (SortMapKeys with the registered MapKeySorter).
SortMapKeys(S) ==
    LET pos(k) == 1 + Cardinality({k2 \in S \ {k} : NameFirstSort(k2, k)})
    IN  [i \in 1..Cardinality(S) |-> CHOOSE k \in S : pos(k) = i]

\* Marshal of a map (a function from keys to value texts).
MarshalMap(f) ==
    LET order == SortMapKeys(DOMAIN f)
    IN  Obj([i \in 1..Len(order) |-> Member(order[i], f[order[i]])])

(***************************************************************************)
(* jsonpatch.MergePatch.  Both documents are unmarshalled one level deep   *)
(* into maps of lazily decoded nodes; a node that the merge does not look  *)
(* into keeps its text.                                                    *)
(***************************************************************************)
\* A faulty variant of PruneNulls, which the idempotence of the merge must
\* tell from it: the nulls of a value taken from the patch are kept.
KeepNulls(v) == v

RECURSIVE PruneNulls(_)
PruneNulls(v) ==
    IF IsObj(v)
    THEN LET keep == {k \in KeysOf(v) : ~IsNull(Get(v, k))}
         IN  MarshalMap([k \in keep |-> PruneNulls(Get(v, k))])
    ELSE v

\* A faulty variant of MergeDocs, which the merge property must tell from
\* it: an object of the patch replaces the object of the document instead of
\* being merged into it.
MergeDocsShallow(doc, patch) ==
    LET removed == {k \in KeysOf(patch) : IsNull(Get(patch, k))}
        set == KeysOf(patch) \ removed
        keys == (KeysOf(doc) \ removed) \cup set
    IN  MarshalMap([k \in keys |->
                      IF k \in set THEN PruneNulls(Get(patch, k)) ELSE Get(doc, k)])

RECURSIVE MergeDocs(_, _)
MergeDocs(doc, patch) ==
    LET removed == {k \in KeysOf(patch) : IsNull(Get(patch, k))}
        set == KeysOf(patch) \ removed
        keys == (KeysOf(doc) \ removed) \cup set
        node(k) ==
            IF k \notin set THEN Get(doc, k)
            ELSE IF k \notin KeysOf(doc) \/ IsNull(Get(doc, k))
                 THEN PruneNulls(Get(patch, k))
            ELSE IF ~IsObj(Get(doc, k)) THEN PruneNulls(Get(patch, k))
            ELSE IF ~IsObj(Get(patch, k)) THEN Get(patch, k)
            ELSE MergeDocs(Get(doc, k), Get(patch, k))
    IN  MarshalMap([k \in keys |-> node(k)])

(***************************************************************************)
(* File contents.  Bin stands for bytes that are not valid JSON, Truncated *)
(* for what a write that failed part way leaves behind (not valid JSON     *)
(* either).  json.Indent re-indents a document and keeps its member order. *)
(***************************************************************************)
Bin == [fmt |-> "bin"]
Truncated == [fmt |-> "truncated"]
Json(indent, doc) == [fmt |-> "json", indent |-> indent, doc |-> doc]
IsJson(b) == b.fmt = "json"

\* the error combineJSONFile returns instead of a reader
MergeError == [fmt |-> "error"]

\* combineJSONFile, given the bytes read from disk and from the entry
CombineJSON(existingBytes, newBytes) ==
    IF ~IsJson(existingBytes) \/ ~IsJson(newBytes) THEN MergeError
    ELSE Json("tab", MergeDocs(existingBytes.doc, newBytes.doc))

(***************************************************************************)
(* Paths and the file system.  A path is the sequence of its segments, the *)
(* empty sequence being the working directory.                             *)
(***************************************************************************)
\* filepath.Clean, segment by segment: "." is dropped and ".." removes the
\* segment before it, unless there is none (or it is ".." itself).
RECURSIVE Clean(_)
Clean(segs) ==
    IF segs = <<>> THEN <<>>
    ELSE LET init == Clean(SubSeq(segs, 1, Len(segs) - 1))
             s == segs[Len(segs)]
         IN  IF s = "." THEN init
             ELSE IF s = ".." /\ init # <<>> /\ init[Len(init)] # ".."
                  THEN SubSeq(init, 1, Len(init) - 1)
             ELSE Append(init, s)

\* A faulty variant of Join, which the registry property must tell from it:
\* the segments are put together and not cleaned.
JoinNoClean(dir, name) == dir \o name

\* filepath.Join(targetLocation, filepath.FromSlash(file.Name))
Join(dir, name) == Clean(dir \o name)

Parent(p) == SubSeq(p, 1, Len(p) - 1)
Prefixes(p) == {SubSeq(p, 1, n) : n \in 1..Len(p)}
IsPrefix(d, p) == Len(d) <= Len(p) /\ SubSeq(p, 1, Len(d)) = d

Nil == "nil"
FilesystemError == "FilesystemError"
MergeFailed == "MergeError"
ArchiveOpenError == "ArchiveOpenError"
TransportError == "TransportError"

NoFiles == [p \in {} |-> Bin]
IsFile(fs, p) == p \in DOMAIN fs.files
IsDir(fs, p) == p \in fs.dirs \/ \A i \in 1..Len(p) : p[i] = ".."
Exists(fs, p) == IsFile(fs, p) \/ IsDir(fs, p)

\* createDirectory: nothing to do when os.Stat finds the path, else
\* os.MkdirAll, which fails when a file is in the way (or when told to).
createDirectory(fs, path, fail) ==
    IF Exists(fs, path) THEN [err |-> Nil, fs |-> fs]
    ELSE IF fail \/ \E q \in Prefixes(path) : IsFile(fs, q)
         THEN [err |-> FilesystemError, fs |-> fs]
    ELSE [err |-> Nil, fs |-> [fs EXCEPT !.dirs = @ \cup Prefixes(path)]]

WithFile(fs, path, bytes) ==
    [fs EXCEPT !.files = [p \in DOMAIN fs.files \cup {path} |->
                             IF p = path THEN bytes ELSE fs.files[p]]]

\* writeNewFile: os.OpenFile(O_CREATE|O_WRONLY|O_TRUNC) then io.Copy.  The
\* open fails when the directory is missing or the path is a directory; a
\* copy that fails leaves the truncated file behind.
writeNewFile(fs, bytes, path, fault) ==
    IF fault = "create" \/ ~IsDir(fs, Parent(path)) \/ IsDir(fs, path)
    THEN [err |-> FilesystemError, fs |-> fs]
    ELSE IF fault = "copy"
         THEN [err |-> FilesystemError, fs |-> WithFile(fs, path, Truncated)]
    ELSE [err |-> Nil, fs |-> WithFile(fs, path, bytes)]

\* readExistingFile: ioutil.ReadFile
readExistingFile(fs, path, fault) ==
    IF fault = "read" \/ ~IsFile(fs, path)
    THEN [err |-> FilesystemError, bytes |-> Bin]
    ELSE [err |-> Nil, bytes |-> fs.files[path]]

\* combineJSONFile: read the existing file, merge, re-indent
combineJSONFile(fs, newBytes, path, fault) ==
    LET existing == readExistingFile(fs, path, fault)
    IN  IF existing.err # Nil THEN [err |-> existing.err, bytes |-> Bin]
        ELSE IF CombineJSON(existing.bytes, newBytes) = MergeError
             THEN [err |-> MergeFailed, bytes |-> Bin]
        ELSE [err |-> Nil, bytes |-> CombineJSON(existing.bytes, newBytes)]

(***************************************************************************)
(* A ZIP entry: its name (segments, as written in the archive), whether it *)
(* is a directory marker, and its content.                                 *)
(***************************************************************************)
FileEntry(name, body) == [name |-> name, isDir |-> FALSE, body |-> body]
DirEntry(name) == [name |-> name, isDir |-> TRUE, body |-> Bin]

\* A faulty variant of contentToWrite, which the fold property must tell
\* from it: always the entry's own bytes, merged with nothing.
contentAlwaysRaw(fs, file, fullPath, fileAlreadyWritten, fault) ==
    [err |-> Nil, bytes |-> file.body]

\* What readFileFromZipAndWriteToFilesystem hands to the file creator: the
\* entry's own bytes, or for a file already written the merge of the file
\* on disk with them
contentToWrite(fs, file, fullPath, fileAlreadyWritten, fault) ==
    IF fileAlreadyWritten
    THEN combineJSONFile(fs, file.body, fullPath, fault)
    ELSE [err |-> Nil, bytes |-> file.body]

\* What can go wrong while one entry is processed: at most one step fails,
\* because the first failure returns.
Faults == {"none", "mkdir", "dirmark", "open", "read", "create", "copy"}

\* A faulty variant of readFileFromZipAndWriteToFilesystem, which the
\* property of the directory markers must tell from it: a directory marker
\* is not looked for and is written like a file.
writeWithoutDirCheck(fs, file, fullPath, fileAlreadyWritten, fault) ==
    IF Parent(fullPath) = <<>>
    THEN [err |-> Nil, fs |-> fs]
    ELSE LET made == createDirectory(fs, Parent(fullPath), fault = "mkdir")
         IN  IF made.err # Nil THEN made
             ELSE writeNewFile(made.fs, file.body, fullPath, fault)

\* a call of one of the three collaborators handed to
\* readFileFromZipAndWriteToFilesystem
Call(fn, path, mode) == [fn |-> fn, path |-> path, mode |-> mode]

\* readFileFromZipAndWriteToFilesystem: the calls of its collaborators it
\* makes, in order
Calls(fs, file, fullPath, fileAlreadyWritten, fault) ==
    IF Parent(fullPath) = <<>> THEN <<>>
    ELSE LET mkdir == <<Call("directoryCreator", Parent(fullPath), "0755")>>
             made == createDirectory(fs, Parent(fullPath), fault = "mkdir")
         IN  IF made.err # Nil THEN mkdir
             ELSE IF file.isDir
                  THEN Append(mkdir, Call("directoryCreator", fullPath, "file.Mode()"))
             ELSE IF fault = "open" THEN mkdir
             ELSE IF fileAlreadyWritten
                  THEN LET read == Append(mkdir, Call("existingFileReader", fullPath, ""))
                       IN  IF combineJSONFile(made.fs, file.body, fullPath, fault).err # Nil
                           THEN read
                           ELSE Append(read, Call("fileCreator", fullPath, ""))
             ELSE Append(mkdir, Call("fileCreator", fullPath, ""))

\* readFileFromZipAndWriteToFilesystem: the error it returns and the file
\* system it leaves.
readFileFromZipAndWriteToFilesystem(fs, file, fullPath, fileAlreadyWritten, fault) ==
    IF Parent(fullPath) = <<>>
    THEN [err |-> Nil, fs |-> fs]
    ELSE LET made == createDirectory(fs, Parent(fullPath), fault = "mkdir")
         IN  IF made.err # Nil THEN made
             ELSE IF file.isDir
                  THEN createDirectory(made.fs, fullPath, fault = "dirmark")
             ELSE IF fault = "open"
                  THEN [err |-> FilesystemError, fs |-> made.fs]
             ELSE LET content ==
                          contentToWrite(made.fs, file, fullPath, fileAlreadyWritten, fault)
                  IN  IF content.err # Nil
                      THEN [err |-> content.err, fs |-> made.fs]
                      ELSE writeNewFile(made.fs, content.bytes, fullPath, fault)

(***************************************************************************)
(* The inputs of a run.                                                    *)
(***************************************************************************)
\* types.GetMetadataTypeDirNames(): the directories a retrieve clears
MetadataTypeDirNames == {"apps", "pages"}

\* the global targetDir (the --dir flag): empty, or a directory
TargetDirs == {<<>>, <<"out">>}

\* documents the archives carry
DocFoo1 == Json("raw", Obj(<<Member("name", Lit("Foo")), Member("id", Lit("1"))>>))
DocFoo2 == Json("raw", Obj(<<Member("id", Lit("2")), Member("extra", Lit("true"))>>))
DocOld == Json("tab", Obj(<<Member("id", Lit("old"))>>))
Bodies == {DocFoo1, DocFoo2, Bin}

\* entry names as the archive spells them
FooName == <<"pages", "Foo.json">>
Entries ==
    {FileEntry(FooName, b) : b \in Bodies}
    \cup {FileEntry(<<"pages", ".", "Foo.json">>, DocFoo2),
          FileEntry(<<"..", "pages", "Foo.json">>, DocFoo2),
          FileEntry(<<"root.txt">>, Bin),
          FileEntry(<<"pages">>, Bin),
          DirEntry(<<"pages">>)}

\* the plans the server may answer with (the keys of the map of plans)
PlanSets == {{}, {"metadata"}, {"data", "metadata"}}
PlanIds == UNION PlanSets

\* what the target may hold before the run: files of an earlier retrieve
StaleLayouts(t) ==
    {{}, {t \o <<"pages", "Foo.json">>, t \o <<"root.txt">>}}

\* a response body nobody has read yet: what it holds shows when the
\* archive is opened and its entries are read
Unread == [lazy |-> TRUE]

NoEntry == [file |-> DirEntry(<<>>), path |-> <<>>, aw |-> FALSE, dup |-> FALSE]

(***************************************************************************)
(* State.                                                                  *)
(***************************************************************************)
VARIABLES
    pc,         \* where the command is
    targetDir,  \* the target directory of the run
    todo,       \* plans of the retrieve plan not requested yet
    results,    \* executeRetrievePlan's planResults: one payload per plan
    k,          \* writeResultsToDisk: index of the result being processed
    nEntries,   \* unzip: number of entries of the open archive
    j,          \* unzip: index of the entry being processed
    cur,        \* unzip: the entry at hand, its path and fileAlreadyWritten
    files,      \* the file system: contents of the regular files
    dirs,       \* the file system: the directories
    pathMap,    \* writeResultsToDisk's pathMap
    tmpFiles,   \* temporary files that exist (named by the result's index)
    deferred,   \* temporary files whose os.Remove is deferred
    closed,     \* results whose payload has been closed
    result,     \* what the command ended with
    archErr,    \* history: first error an entry of the open archive returned
    errPaths,   \* history: paths an entry of which returned an error
    expect,     \* history: per path, the fold of the merge over its entries
    wrote,      \* history: paths whose file this run wrote
    seen,       \* history: normalised paths of the entries processed so far
    used,       \* history: number of entries of the archives opened so far
    remote,     \* the archive the server answers each plan with, where fixed
    run,        \* which retrieve of two in succession this is
    firstOut,   \* the files the first of two retrieves left
    mA, mB,     \* the merge on its own: the existing and the incoming bytes
    mOut,       \* the merge on its own: what combineJSONFile made of them
    mAgain,     \* the merge on its own: the incoming bytes merged onto mOut
    requests,   \* history: the requests issued, as (plan, kind of request)
    walk,       \* Archive: what filepath.Walk has yet to visit
    zipEntries, \* Archive: the entries the zip writer holds
    zipClosed   \* Archive: whether the zip writer was closed

vars ==
    <<pc, targetDir, todo, results, k, nEntries, j, cur, files, dirs, pathMap,
      tmpFiles, deferred, closed, result, archErr, errPaths, expect, wrote, seen,
      used, requests>>

\* the state of the run but for where the command is
vars_but_pc ==
    <<targetDir, todo, results, k, nEntries, j, cur, files, dirs, pathMap,
      tmpFiles, deferred, closed, result, archErr, errPaths, expect, wrote, seen,
      used, requests>>

\* the state of the run, and the rest
aux == <<remote, run, firstOut, mA, mB, mOut, mAgain, walk, zipEntries, zipClosed>>
allVars == <<vars, aux>>
NoBytes == [fmt |-> "none"]

fsNow == [files |-> files, dirs |-> dirs]

\* the state of a run before executeRetrievePlan, for the given plans
InitRun(plans) ==
    /\ pc = "plans"
    /\ targetDir \in TargetDirs
    /\ todo = plans
    /\ results = <<>>
    /\ k = 0 /\ nEntries = 0 /\ j = 0
    /\ cur = NoEntry
    /\ \E S \in StaleLayouts(targetDir) :
          /\ files = [p \in S |-> DocOld]
          /\ dirs = UNION {Prefixes(Parent(p)) : p \in S}
    /\ pathMap = {}
    /\ tmpFiles = {} /\ deferred = {} /\ closed = {}
    /\ result = "running"
    /\ archErr = Nil /\ errPaths = {}
    /\ expect = NoFiles
    /\ wrote = {} /\ seen = {} /\ used = 0
    /\ requests = {}

\* the state of what the run does not use
NoMerge == mA = NoBytes /\ mB = NoBytes /\ mOut = NoBytes /\ mAgain = NoBytes
NoArchive == walk = <<>> /\ zipEntries = <<>> /\ zipClosed = FALSE

InitAux ==
    /\ remote = <<>> /\ run = 1 /\ firstOut = NoFiles
    /\ NoMerge /\ NoArchive

Init == (\E plans \in PlanSets : InitRun(plans)) /\ InitAux

(***************************************************************************)
(* executeRetrievePlan: one request per plan, in the order in which the    *)
(* map of plans happens to be iterated; the first failure ends the command.*)
(***************************************************************************)
\* the Host of each plan: the metadata service is reached through the
\* site's own connection, the data service at a host and port of its own
PlanHost(plan) == IF plan = "metadata" THEN "" ELSE "warden"

\* A faulty variant of RequestKind, which the property of the requests must
\* tell from it: every plan is requested over the default connection.
RequestAlwaysDefault(host) == "MakeRequest"

\* the branch on plan.Host: which method of the connection is called
RequestKind(host) == IF host = "" THEN "MakeRequest" ELSE "MakeJWTRequest"

\* the request for a plan, numbered among the requests for that plan
Issued(plan) ==
    [plan |-> plan, kind |-> RequestKind(PlanHost(plan)),
     n |-> 1 + Cardinality({r \in requests : r.plan = plan})]

MakeRequest(plan, payload) ==
    /\ pc = "plans" /\ plan \in todo
    /\ todo' = todo \ {plan}
    /\ requests' = requests \cup {Issued(plan)}
    /\ results' = Append(results, payload)
    /\ UNCHANGED <<aux, pc, targetDir, k, nEntries, j, cur, files, dirs, pathMap,
                   tmpFiles, deferred, closed, result, archErr, errPaths,
                   expect, wrote, seen, used>>

\* the request returns an error: executeRetrievePlan returns nil and the error
RequestFails(plan) ==
    /\ pc = "plans" /\ plan \in todo
    /\ requests' = requests \cup {Issued(plan)}
    /\ pc' = "done" /\ result' = TransportError
    /\ results' = <<>>
    /\ UNCHANGED <<aux, targetDir, todo, k, nEntries, j, cur, files, dirs, pathMap,
                   tmpFiles, deferred, closed, archErr, errPaths, expect,
                   wrote, seen, used>>

\* json.Marshal of the plan's metadata fails: executeRetrievePlan returns
\* nil and the error before the request is made
MarshalFails(plan) ==
    /\ pc = "plans" /\ plan \in todo
    /\ pc' = "done" /\ result' = TransportError
    /\ results' = <<>>
    /\ UNCHANGED <<aux, requests, targetDir, todo, k, nEntries, j, cur, files, dirs,
                   pathMap, tmpFiles, deferred, closed, archErr, errPaths,
                   expect, wrote, seen, used>>

ReturnPlanResults ==
    /\ pc = "plans" /\ todo = {}
    /\ pc' = "write"
    /\ UNCHANGED <<aux, requests, targetDir, todo, results, k, nEntries, j, cur, files, dirs,
                   pathMap, tmpFiles, deferred, closed, result, archErr,
                   errPaths, expect, wrote, seen, used>>

(***************************************************************************)
(* writeResultsToDisk.                                                     *)
(***************************************************************************)
\* A faulty variant of RemoveMetadataDirs, which the clean slate property
\* must tell from it: nothing is removed.
RemoveNothing(fs, target) == fs

\* the loop over types.GetMetadataTypeDirNames() with os.RemoveAll: each
\* metadata directory under the target goes, with everything below it
RemoveMetadataDirs(fs, target) ==
    LET doomed(q) == \E d \in MetadataTypeDirNames : IsPrefix(Join(target, <<d>>), q)
    IN  [files |-> [p \in {q \in DOMAIN fs.files : ~doomed(q)} |-> fs.files[p]],
         dirs |-> {q \in fs.dirs : ~doomed(q)}]

\* the deferred os.Remove calls, run when writeResultsToDisk returns
RunDeferred(tmp, removals) == tmp \ removals

\* the start of writeResultsToDisk: clear the metadata directories and
\* make the empty pathMap
CleanSlate ==
    /\ pc = "write"
    /\ files' = RemoveMetadataDirs(fsNow, targetDir).files
    /\ dirs' = RemoveMetadataDirs(fsNow, targetDir).dirs
    /\ pathMap' = {}
    /\ k' = 1
    /\ pc' = "loop"
    /\ UNCHANGED <<aux, requests, targetDir, todo, results, nEntries, j, cur, tmpFiles,
                   deferred, closed, result, archErr, errPaths, expect, wrote,
                   seen, used>>

\* createTemporaryZipFile succeeds: the payload is copied and closed
Spool ==
    /\ pc = "loop" /\ k <= Len(results)
    /\ tmpFiles' = tmpFiles \cup {k}
    /\ closed' = closed \cup {k}
    /\ pc' = "unzip"
    /\ UNCHANGED <<aux, requests, targetDir, todo, results, k, nEntries, j, cur, files, dirs,
                   pathMap, deferred, result, archErr, errPaths, expect, wrote,
                   seen, used>>

\* ioutil.TempFile fails: createTemporaryZipFile returns before anything
\* is created or deferred, and writeResultsToDisk returns the error
TempFileFails ==
    /\ pc = "loop" /\ k <= Len(results)
    /\ tmpFiles' = RunDeferred(tmpFiles, deferred)
    /\ result' = FilesystemError
    /\ pc' = "done"
    /\ UNCHANGED <<aux, requests, targetDir, todo, results, k, nEntries, j, cur, files, dirs,
                   pathMap, deferred, closed, archErr, errPaths, expect, wrote,
                   seen, used>>

\* io.Copy into the temporary file fails: the file exists, the payload is
\* closed, the name is not returned, and writeResultsToDisk returns the error
SpoolCopyFails ==
    /\ pc = "loop" /\ k <= Len(results)
    /\ tmpFiles' = RunDeferred(tmpFiles \cup {k}, deferred)
    /\ closed' = closed \cup {k}
    /\ result' = FilesystemError
    /\ pc' = "done"
    /\ UNCHANGED <<aux, requests, targetDir, todo, results, k, nEntries, j, cur, files, dirs,
                   pathMap, deferred, archErr, errPaths, expect, wrote, seen, used>>

\* unzip returned err: the removal of the temporary file is deferred, then
\* writeResultsToDisk returns err and the deferred removals run
UnzipFailed(err) ==
    /\ deferred' = deferred \cup {k}
    /\ tmpFiles' = RunDeferred(tmpFiles, deferred \cup {k})
    /\ result' = err
    /\ pc' = "done"

\* A faulty variant of OpenReaderFails, which the property of the open
\* error must tell from it: the target directory is made before the archive
\* is opened.
OpenReaderFailsAfterMkdir ==
    /\ pc = "unzip"
    /\ LET made == IF targetDir = <<>> THEN [err |-> Nil, fs |-> fsNow]
                   ELSE createDirectory(fsNow, targetDir, FALSE)
       IN  files' = made.fs.files /\ dirs' = made.fs.dirs
    /\ UnzipFailed(ArchiveOpenError)
    /\ UNCHANGED <<aux, requests, targetDir, todo, results, k, nEntries, j, cur,
                   pathMap, closed, archErr, errPaths, expect, wrote, seen, used>>

\* zip.OpenReader fails
OpenReaderFails ==
    /\ pc = "unzip"
    /\ UnzipFailed(ArchiveOpenError)
    /\ UNCHANGED <<aux, requests, targetDir, todo, results, k, nEntries, j, cur, files, dirs,
                   pathMap, closed, archErr, errPaths, expect, wrote, seen, used>>

\* the target directory cannot be created
TargetDirFails ==
    /\ pc = "unzip" /\ targetDir # <<>>
    /\ \E fail \in BOOLEAN : createDirectory(fsNow, targetDir, fail).err # Nil
    /\ UnzipFailed(FilesystemError)
    /\ UNCHANGED <<aux, requests, targetDir, todo, results, k, nEntries, j, cur, files, dirs,
                   pathMap, closed, archErr, errPaths, expect, wrote, seen, used>>

\* the archive opens and the target directory exists: the loop over
\* reader.File starts
OpenArchive(n) ==
    /\ pc = "unzip" /\ used + n <= MaxEntries
    /\ LET made == IF targetDir = <<>> THEN [err |-> Nil, fs |-> fsNow]
                   ELSE createDirectory(fsNow, targetDir, FALSE)
       IN  /\ made.err = Nil
           /\ files' = made.fs.files
           /\ dirs' = made.fs.dirs
    /\ nEntries' = n
    /\ used' = used + n
    /\ j' = 1
    /\ archErr' = Nil
    /\ pc' = "entry"
    /\ UNCHANGED <<aux, requests, targetDir, todo, results, k, cur, pathMap, tmpFiles,
                   deferred, closed, result, errPaths, expect, wrote, seen>>

\* unzip, loop body up to the call: the path of the entry, whether it was
\* already written, and its registration
Register(file) ==
    /\ pc = "entry" /\ j <= nEntries
    /\ LET path == Join(targetDir, file.name)
       IN  /\ cur' = [file |-> file, path |-> path, aw |-> path \in pathMap,
                      dup |-> Clean(targetDir \o file.name) \in seen]
           /\ pathMap' = pathMap \cup {path}
           /\ seen' = seen \cup {Clean(targetDir \o file.name)}
    /\ pc' = "process"
    /\ UNCHANGED <<aux, requests, targetDir, todo, results, k, nEntries, j, files, dirs,
                   tmpFiles, deferred, closed, result, archErr, errPaths,
                   expect, wrote, used>>

\* unzip, the call of readFileFromZipAndWriteToFilesystem, whose result is
\* dropped, and the step to the next entry
Process(fault) ==
    /\ pc = "process"
    /\ LET r == readFileFromZipAndWriteToFilesystem(fsNow, cur.file, cur.path, cur.aw, fault)
           isContent == ~cur.file.isDir /\ Parent(cur.path) # <<>>
       IN  /\ files' = r.fs.files
           /\ dirs' = r.fs.dirs
           /\ archErr' = IF archErr = Nil THEN r.err ELSE archErr
           /\ errPaths' = IF r.err = Nil THEN errPaths ELSE errPaths \cup {cur.path}
           /\ expect' =
                 IF ~isContent THEN expect
                 ELSE [p \in DOMAIN expect \cup {cur.path} |->
                          IF p # cur.path THEN expect[p]
                          ELSE IF p \in DOMAIN expect
                               THEN CombineJSON(expect[p], cur.file.body)
                          ELSE cur.file.body]
           /\ wrote' = wrote
                 \cup {p \in DOMAIN r.fs.files :
                          p \notin DOMAIN files \/ r.fs.files[p] # files[p]}
                 \cup (IF isContent /\ r.err = Nil THEN {cur.path} ELSE {})
    /\ cur' = NoEntry
    /\ j' = j + 1
    /\ pc' = "entry"
    /\ UNCHANGED <<aux, requests, targetDir, todo, results, k, nEntries, pathMap, tmpFiles,
                   deferred, closed, result, seen, used>>

\* unzip returns nil: the removal of the temporary file is deferred and the
\* loop goes to the next result
UnzipReturns ==
    /\ pc = "entry" /\ j > nEntries
    /\ deferred' = deferred \cup {k}
    /\ k' = k + 1
    /\ pc' = "loop"
    /\ UNCHANGED <<aux, requests, targetDir, todo, results, nEntries, j, cur, files, dirs,
                   pathMap, tmpFiles, closed, result, archErr, errPaths,
                   expect, wrote, seen, used>>

\* every result is processed: writeResultsToDisk returns nil
ReturnNil ==
    /\ pc = "loop" /\ k > Len(results)
    /\ tmpFiles' = RunDeferred(tmpFiles, deferred)
    /\ result' = Nil
    /\ pc' = "done"
    /\ UNCHANGED <<aux, requests, targetDir, todo, results, k, nEntries, j, cur, files, dirs,
                   pathMap, deferred, closed, archErr, errPaths, expect, wrote,
                   seen, used>>

Next ==
    \/ \E plan \in PlanIds : MakeRequest(plan, Unread)
    \/ \E plan \in PlanIds : RequestFails(plan)
    \/ \E plan \in PlanIds : MarshalFails(plan)
    \/ ReturnPlanResults
    \/ CleanSlate
    \/ Spool
    \/ TempFileFails
    \/ SpoolCopyFails
    \/ OpenReaderFails
    \/ TargetDirFails
    \/ \E n \in 0..MaxEntries : OpenArchive(n)
    \/ \E file \in Entries : Register(file)
    \/ \E fault \in Faults : Process(fault)
    \/ UnzipReturns
    \/ ReturnNil

Spec == Init /\ [][Next]_allVars

(***************************************************************************)
(* Two retrieves in succession against a server whose answers do not       *)
(* change: each plan is answered with the same archive both times, nothing *)
(* fails, and the map of plans is iterated in whatever order each time.    *)
(***************************************************************************)
DetEntries ==
    {FileEntry(FooName, DocFoo1), FileEntry(FooName, DocFoo2), DirEntry(<<"pages">>)}
DetArchives == UNION {[1..n -> DetEntries] : n \in 0..MaxEntries}
Fetched(archive) == [lazy |-> FALSE, entries |-> archive]

InitDet ==
    /\ InitRun({"data", "metadata"})
    /\ remote \in {r \in [{"data", "metadata"} -> DetArchives] :
                      Len(r["data"]) + Len(r["metadata"]) <= MaxEntries}
    /\ run = 1 /\ firstOut = NoFiles
    /\ NoMerge /\ NoArchive

\* the command is run again: a new process, the same target directory
Rerun ==
    /\ pc = "done" /\ run = 1
    /\ run' = 2
    /\ firstOut' = files
    /\ pc' = "plans"
    /\ todo' = DOMAIN remote
    /\ results' = <<>>
    /\ k' = 0 /\ nEntries' = 0 /\ j' = 0
    /\ cur' = NoEntry
    /\ pathMap' = {}
    /\ tmpFiles' = {} /\ deferred' = {} /\ closed' = {}
    /\ result' = "running"
    /\ archErr' = Nil /\ errPaths' = {}
    /\ expect' = NoFiles
    /\ wrote' = {} /\ seen' = {} /\ used' = 0
    /\ requests' = {}
    /\ UNCHANGED <<targetDir, files, dirs, remote, mA, mB, mOut, mAgain, walk,
                   zipEntries, zipClosed>>

NextDet ==
    \/ \E plan \in PlanIds : MakeRequest(plan, Fetched(remote[plan]))
    \/ ReturnPlanResults
    \/ CleanSlate
    \/ Spool
    \/ OpenArchive(Len(results[k].entries))
    \/ Register(results[k].entries[j])
    \/ Process("none")
    \/ UnzipReturns
    \/ ReturnNil
    \/ Rerun

SpecDet == InitDet /\ [][NextDet]_allVars

(***************************************************************************)
(* The merge on its own: combineJSONFile applied to every pair of          *)
(* documents over a few keys and values, nested one level.                 *)
(***************************************************************************)
LitNames == <<"1", "2", "3", "4">>
Scalars == {Lit(LitNames[i]) : i \in 1..MaxLits} \cup {Null}

\* the text of a map, members in ascending key order or the reverse
TextOf(f, rev) ==
    LET n == Cardinality(DOMAIN f)
        asc == [i \in 1..n |->
                   CHOOSE key \in DOMAIN f :
                       Cardinality({k2 \in DOMAIN f : StringLess(k2, key)}) = i - 1]
    IN  Obj([i \in 1..n |->
                LET key == IF rev THEN asc[n + 1 - i] ELSE asc[i]
                IN  Member(key, f[key])])

InnerObjs(rev) ==
    {TextOf(f, rev) : f \in UNION {[S -> Scalars] : S \in SUBSET {"id", "name"}}}

\* what a top-level key may be bound to
TopValues(key, rev) ==
    IF key = "sub" THEN Scalars \cup InnerObjs(rev)
    ELSE IF key = "name" THEN {Lit("1")}
    ELSE Scalars

TopObjs(rev) ==
    {TextOf(f, rev) :
        f \in UNION {{g \in [S -> Scalars \cup InnerObjs(rev)] :
                         \A key \in S : g[key] \in TopValues(key, rev)} :
                     S \in SUBSET {"id", "name", "sub"}}}

InitMerge ==
    /\ pc = "merge"
    /\ targetDir = <<>> /\ todo = {} /\ results = <<>>
    /\ k = 0 /\ nEntries = 0 /\ j = 0
    /\ cur = NoEntry
    /\ files = NoFiles /\ dirs = {} /\ pathMap = {}
    /\ tmpFiles = {} /\ deferred = {} /\ closed = {}
    /\ result = "running"
    /\ archErr = Nil /\ errPaths = {}
    /\ expect = NoFiles
    /\ wrote = {} /\ seen = {} /\ used = 0
    /\ requests = {}
    /\ remote = <<>> /\ run = 1 /\ firstOut = NoFiles
    /\ NoArchive
    /\ \E rev \in BOOLEAN :
          /\ mA \in {Json("raw", a) : a \in TopObjs(rev)}
          /\ mB \in {Json("raw", b) : b \in TopObjs(FALSE)}
    /\ mOut = NoBytes /\ mAgain = NoBytes

\* combineJSONFile on the two documents
Combine ==
    /\ pc = "merge"
    /\ mOut' = CombineJSON(mA, mB)
    /\ pc' = "merged"
    /\ UNCHANGED <<vars_but_pc, remote, run, firstOut, mA, mB, mAgain, walk,
                   zipEntries, zipClosed>>

\* combineJSONFile once more: the same incoming document onto the result,
\* as when an archive is extracted a second time in the run
CombineAgain ==
    /\ pc = "merged"
    /\ mAgain' = CombineJSON(mOut, mB)
    /\ pc' = "mergedAgain"
    /\ UNCHANGED <<vars_but_pc, remote, run, firstOut, mA, mB, mOut, walk,
                   zipEntries, zipClosed>>

NextMerge ==
    \/ Combine
    \/ CombineAgain

SpecMerge == InitMerge /\ [][NextMerge]_allVars

(***************************************************************************)
(* ziputils.Archive: the directory is walked, every regular file becomes   *)
(* an entry of the zip writer, and the writer is closed at the end.        *)
(***************************************************************************)
\* what filepath.Walk may come upon: a directory, a regular file, and
\* something it cannot stat or read (it hands the error to the callback)
WalkItems == {"dir", "file", "unreadable"}
Walks == UNION {[1..n -> WalkItems] : n \in 0..MaxWalk}

ArchiveError == "ArchiveError"

\* the state of the run but for where it is and what it ended with
vars_idle ==
    <<targetDir, todo, results, k, nEntries, j, cur, files, dirs, pathMap,
      tmpFiles, deferred, closed, archErr, errPaths, expect, wrote, seen,
      used, requests, remote, run, firstOut, mA, mB, mOut, mAgain>>

\* zip.NewWriter before the walk of a tree
InitArchive ==
    /\ pc = "walk"
    /\ targetDir = <<>> /\ todo = {} /\ results = <<>>
    /\ k = 0 /\ nEntries = 0 /\ j = 0
    /\ cur = NoEntry
    /\ files = NoFiles /\ dirs = {} /\ pathMap = {}
    /\ tmpFiles = {} /\ deferred = {} /\ closed = {}
    /\ result = "running"
    /\ archErr = Nil /\ errPaths = {}
    /\ expect = NoFiles
    /\ wrote = {} /\ seen = {} /\ used = 0
    /\ requests = {}
    /\ remote = <<>> /\ run = 1 /\ firstOut = NoFiles
    /\ NoMerge
    /\ walk \in Walks
    /\ zipEntries = <<>> /\ zipClosed = FALSE

\* the callback returns err: the walk ends and Archive returns err
WalkReturns(err) ==
    /\ result' = err
    /\ pc' = "archived"
    /\ UNCHANGED <<vars_idle, walk, zipClosed>>

\* the callback on a directory: nothing to do, the walk goes on
VisitDir ==
    /\ pc = "walk" /\ walk # <<>> /\ Head(walk) = "dir"
    /\ walk' = Tail(walk)
    /\ UNCHANGED <<vars_idle, pc, result, zipEntries, zipClosed>>

\* the callback is handed the error of the walk and returns it
VisitFails ==
    /\ pc = "walk" /\ walk # <<>> /\ Head(walk) = "unreadable"
    /\ WalkReturns(ArchiveError)
    /\ UNCHANGED zipEntries

\* the callback on a regular file: it is opened, an entry is created and
\* the file is copied into it
AddFile ==
    /\ pc = "walk" /\ walk # <<>> /\ Head(walk) = "file"
    /\ walk' = Tail(walk)
    /\ zipEntries' = Append(zipEntries, "whole")
    /\ UNCHANGED <<vars_idle, pc, result, zipClosed>>

\* os.Open or zipWriter.Create fails: no entry, the callback returns err
OpenOrCreateFails ==
    /\ pc = "walk" /\ walk # <<>> /\ Head(walk) = "file"
    /\ WalkReturns(ArchiveError)
    /\ UNCHANGED zipEntries

\* io.Copy fails: the entry is there with part of the file
CopyFails ==
    /\ pc = "walk" /\ walk # <<>> /\ Head(walk) = "file"
    /\ zipEntries' = Append(zipEntries, "part")
    /\ WalkReturns(ArchiveError)

\* the walk is over without error: zipWriter.Close, whose error (the
\* central directory could not be written) is what Archive returns
CloseZip(err) ==
    /\ pc = "walk" /\ walk = <<>>
    /\ zipClosed' = TRUE
    /\ result' = err
    /\ pc' = "archived"
    /\ UNCHANGED <<vars_idle, walk, zipEntries>>

NextArchive ==
    \/ VisitDir
    \/ VisitFails
    \/ AddFile
    \/ OpenOrCreateFails
    \/ CopyFails
    \/ \E err \in {Nil, ArchiveError} : CloseZip(err)

SpecArchive == InitArchive /\ [][NextArchive]_allVars

(***************************************************************************)
(* JSON merge patch as RFC 7386 defines it, on the values the texts stand  *)
(* for: an object is the map from its keys to the values of its members.   *)
(***************************************************************************)
RECURSIVE Sem(_)
Sem(v) ==
    IF IsObj(v) THEN [t |-> "obj", map |-> [key \in KeysOf(v) |-> Sem(Get(v, key))]]
    ELSE v

EmptyMap == [t |-> "obj", map |-> [key \in {} |-> Null]]

RECURSIVE RefMerge(_, _)
RefMerge(target, patch) ==
    IF ~IsObj(patch) THEN patch
    ELSE LET base == IF IsObj(target) THEN target.map ELSE EmptyMap.map
             gone == {key \in DOMAIN patch.map : IsNull(patch.map[key])}
             keys == (DOMAIN base \ gone) \cup (DOMAIN patch.map \ gone)
         IN  [t |-> "obj",
              map |-> [key \in keys |->
                          IF key \notin DOMAIN patch.map THEN base[key]
                          ELSE IF key \in DOMAIN base
                               THEN RefMerge(base[key], patch.map[key])
                          ELSE RefMerge(Null, patch.map[key])]]

(***************************************************************************)
(* Properties.                                                             *)
(***************************************************************************)
UnderMetadataDir(p) ==
    \E d \in MetadataTypeDirNames : IsPrefix(Join(targetDir, <<d>>), p)

\* C1: when the JSON merge for an already written path fails, the error
\* comes out of unzip and writeResultsToDisk (the run does not return nil)
\* and no further entry of that archive is processed after the failing one.
C1_MergeErrorAborts ==
    archErr = MergeFailed =>
        /\ pc \notin {"process", "loop"}
        /\ ~(pc = "done" /\ result = Nil)

\* C2: when processing an entry hits a file system error, unzip processes
\* none of the remaining entries of the archive and returns the error to
\* its caller (so the run does not return nil).
C2_IOErrorAborts ==
    archErr = FilesystemError =>
        /\ pc \notin {"process", "loop"}
        /\ ~(pc = "done" /\ result = Nil)

\* C3: a path whose file entries were all processed without error holds the
\* left fold of the merge over their contents, in processing order and
\* across archives: the first content as it is, every later one merged onto
\* what the earlier ones gave.
C3_FoldOfMerges ==
    \A p \in DOMAIN expect \ errPaths : IsFile(fsNow, p) /\ files[p] = expect[p]

\* two archives are done and a path holds DocFoo2 merged onto DocFoo1
C3_Witness ==
    /\ pc = "done" /\ result = Nil /\ k = 3
    /\ \E p \in DOMAIN expect \ errPaths :
          /\ p \in DOMAIN files
          /\ files[p] = CombineJSON(DocFoo1, DocFoo2)
          /\ files[p].doc =
                Obj(<<Member("name", Lit("Foo")), Member("extra", Lit("true")),
                      Member("id", Lit("2"))>>)

\* C4: whatever the target directory, an entry whose name has no directory
\* segment creates no file directly in the target directory.
C4_RootEntriesSkipped == \A p \in wrote : Parent(p) # targetDir

\* C5: two retrieves of the same plans and the same archives leave the
\* same files, whatever the order in which each iterates the plans.
C5_Deterministic == pc = "done" /\ run = 2 => files = firstOut

\* C6: the pathMap is empty when the loop over the results starts, only
\* grows, and gains a path only when an entry is registered whose path it did
\* not hold; fileAlreadyWritten is true exactly when an earlier entry of the
\* run had the same normalised path, and the path is in the pathMap when
\* the entry is processed.
C6_PathRegistry ==
    /\ [](pc = "loop" /\ k = 1 => pathMap = {})
    /\ [](pc = "process" => (cur.aw <=> cur.dup) /\ cur.path \in pathMap)
    /\ [][pc \notin {"plans", "write"} => pathMap \subseteq pathMap']_allVars
    /\ [][pathMap' # pathMap /\ pc # "write" =>
              /\ pc' = "process" /\ ~cur'.aw
              /\ pathMap' = pathMap \cup {cur'.path}]_allVars

\* the first entry of the second archive has the path of an earlier entry,
\* spelled differently
C6_Witness ==
    /\ pc = "process" /\ k = 2 /\ j = 1
    /\ cur.aw /\ cur.file.name = <<"pages", ".", "Foo.json">>

\* C7: when writeResultsToDisk has returned, on whichever path, no temporary
\* file of the run exists.
C7_TempFilesDeleted == pc = "done" => tmpFiles = {}

\* C8: writeResultsToDisk stops at the first error: after an error of
\* result k nothing of a later result is spooled or extracted, and nil is
\* returned only when every archive was extracted without error.
C8_StopsAtFirstError ==
    pc = "done" /\ result # TransportError =>
        IF result = Nil
        THEN k = Len(results) + 1 /\ errPaths = {}
        ELSE closed \cup tmpFiles \cup deferred \subseteq 1..k

\* C9: nothing is spooled, closed or written before the metadata
\* directories are removed, and from then on every file under a metadata
\* directory of the target was written by this run.
C9_CleanSlateFirst ==
    /\ pc \in {"plans", "write"} => tmpFiles = {} /\ closed = {} /\ wrote = {}
    /\ pc \notin {"plans", "write"} /\ result # TransportError =>
          \A p \in DOMAIN files : UnderMetadataDir(p) => p \in wrote

\* the target held files of an earlier retrieve (the one outside the
\* metadata directories is still there) and the run wrote pages/Foo.json
C9_Witness ==
    /\ pc = "done" /\ result = Nil
    /\ IsFile(fsNow, targetDir \o <<"root.txt">>)
    /\ files[targetDir \o <<"root.txt">>] = DocOld
    /\ targetDir \o FooName \in wrote

\* C10 as stated: the output is the merge patch of the two documents, and
\* inputs with disjoint keys give exactly the union of the keys.
C10_MergePatchAndUnion ==
    pc = "merged" =>
        /\ IsJson(mOut)
        /\ Sem(mOut.doc) = RefMerge(Sem(mA.doc), Sem(mB.doc))
        /\ KeysOf(mA.doc) \cap KeysOf(mB.doc) = {} =>
              KeysOf(mOut.doc) = KeysOf(mA.doc) \cup KeysOf(mB.doc)

\* C10, amended: the output is the merge patch of the two documents: a key
\* only in the existing document keeps its value, a key the incoming one
\* binds to null is absent, a key it binds to another non-object takes that
\* value, objects on both sides are merged recursively; inputs with
\* disjoint keys give the union of the keys less those the incoming document
\* binds to null.
C10_MergePatch ==
    pc = "merged" =>
        /\ IsJson(mOut)
        /\ Sem(mOut.doc) = RefMerge(Sem(mA.doc), Sem(mB.doc))
        /\ \A key \in KeysOf(mA.doc) \ KeysOf(mB.doc) :
              key \in KeysOf(mOut.doc) /\ Get(mOut.doc, key) = Get(mA.doc, key)
        /\ \A key \in KeysOf(mB.doc) :
              IF IsNull(Get(mB.doc, key)) THEN key \notin KeysOf(mOut.doc)
              ELSE /\ key \in KeysOf(mOut.doc)
                   /\ ~IsObj(Get(mB.doc, key)) =>
                         Get(mOut.doc, key) = Get(mB.doc, key)
        /\ KeysOf(mA.doc) \cap KeysOf(mB.doc) = {} =>
              KeysOf(mOut.doc) =
                 KeysOf(mA.doc) \cup {key \in KeysOf(mB.doc) : ~IsNull(Get(mB.doc, key))}

\* the merge of the specification's example of a recursive merge with a
\* null: an object under "sub" on both sides, a key removed inside it
C10_Witness ==
    /\ pc = "merged"
    /\ "sub" \in KeysOf(mA.doc) \cap KeysOf(mB.doc) \cap KeysOf(mOut.doc)
    /\ IsObj(Get(mA.doc, "sub")) /\ IsObj(Get(mB.doc, "sub"))
    /\ "id" \in KeysOf(Get(mB.doc, "sub"))
    /\ IsNull(Get(Get(mB.doc, "sub"), "id"))
    /\ "id" \in KeysOf(Get(mA.doc, "sub"))
    /\ "name" \in KeysOf(Get(mA.doc, "sub"))
    /\ KeysOf(Get(mOut.doc, "sub")) = {"name"}

\* C11: the merge is idempotent in its patch: merging the incoming document
\* once more onto the result of the merge gives the same bytes, so a file
\* merged from an archive extracted twice in a run is as if merged once.
C11_MergeIdempotent == pc = "mergedAgain" => mAgain = mOut

\* the incoming document removes a key of the existing one and brings an
\* object with a null in it under a key the existing one does not have
C11_Witness ==
    /\ pc = "mergedAgain" /\ IsJson(mAgain)
    /\ "id" \in KeysOf(mA.doc) \cap KeysOf(mB.doc)
    /\ IsNull(Get(mB.doc, "id"))
    /\ "sub" \in KeysOf(mB.doc) \ KeysOf(mA.doc)
    /\ IsObj(Get(mB.doc, "sub"))
    /\ \E key \in KeysOf(Get(mB.doc, "sub")) : IsNull(Get(Get(mB.doc, "sub"), key))
    /\ mOut # mA

\* the keys of an object text, and of every object in it, are written with
\* "name" first and the others after it in ascending order
RECURSIVE KeysInNameFirstOrder(_)
KeysInNameFirstOrder(v) ==
    IsObj(v) =>
        /\ \A a, b \in 1..Len(v.members) :
              a < b => /\ v.members[b].k # "name"
                       /\ \/ v.members[a].k = "name"
                          \/ StringLess(v.members[a].k, v.members[b].k)
        /\ \A a \in 1..Len(v.members) : KeysInNameFirstOrder(v.members[a].v)

\* C12: in every object of a merge result, at every nesting level, "name"
\* is written first and the other keys follow in ascending order; the
\* sorter orders any two distinct keys, one way only, "name" before all.
C12_NameFirstEverywhere ==
    /\ \A keyA, keyB \in KeysOf(Obj([i \in 1..Len(KeyOrder) |-> Member(KeyOrder[i], Null)])) :
          keyA # keyB =>
              /\ NameFirstSort(keyA, keyB) # NameFirstSort(keyB, keyA)
              /\ keyA = "name" => NameFirstSort(keyA, keyB)
              /\ "name" \notin {keyA, keyB} =>
                    (NameFirstSort(keyA, keyB) <=> StringLess(keyA, keyB))
    /\ pc = "merged" => IsJson(mOut) /\ KeysInNameFirstOrder(mOut.doc)

\* C19: a plan is never requested twice, and is requested over the default
\* connection when its host is empty and with the token otherwise; when
\* executeRetrievePlan returns the results there is one payload per plan and
\* one request per plan; an error ends it with no payloads and no further
\* request.
C19_OneRequestPerPlan ==
    /\ [](\A r \in requests :
             /\ r.n = 1
             /\ r.plan \in todo => result = TransportError
             /\ r.kind = (IF PlanHost(r.plan) = "" THEN "MakeRequest" ELSE "MakeJWTRequest"))
    /\ [](pc = "write" =>
             /\ todo = {}
             /\ Len(results) = Cardinality({r.plan : r \in requests})
             /\ Cardinality(requests) = Len(results))
    /\ [](result = TransportError => pc = "done" /\ results = <<>>)
    /\ [][result = TransportError => requests' = requests]_allVars

\* both plans were requested, each in its own way, and two payloads returned
C19_Witness ==
    /\ pc = "write" /\ Len(results) = 2
    /\ {r.kind : r \in requests} = {"MakeRequest", "MakeJWTRequest"}

\* C13: when Archive has returned, with or without an error of the walk,
\* the zip writer has been closed.
C13_ZipWriterClosed == pc = "archived" => zipClosed

\* C14: when writeResultsToDisk has returned, with or without error, every
\* payload handed to it has been closed; and a payload is closed only once
\* its spooling was done or has failed.
C14_PayloadsReleased ==
    /\ \A i \in closed : i <= k
    /\ pc = "done" /\ result # TransportError => closed = 1..Len(results)

\* C15: when the archive cannot be opened, unzip returns the open error and
\* nothing else has happened: the target directory is not created, no entry
\* is read or processed, the pathMap and the files are as they were.
C15_OpenErrorFirst ==
    [][result' = ArchiveOpenError /\ result # ArchiveOpenError =>
          /\ pc = "unzip" /\ pc' = "done"
          /\ files' = files /\ dirs' = dirs
          /\ pathMap' = pathMap /\ seen' = seen
          /\ wrote' = wrote /\ used' = used /\ cur' = cur]_allVars

\* the first archive of a run into a target directory that does not exist
\* did not open, and the directory still does not exist
C15_Witness ==
    /\ pc = "done" /\ result = ArchiveOpenError /\ k = 1
    /\ targetDir # <<>> /\ targetDir \notin dirs

\* C16: for a directory marker with an intermediate path, the directory
\* creator is called for the intermediate path and then, with the mode of
\* the entry, for the path itself, and nothing else is called: no file is
\* created or changed, nothing is read or merged, whether or not the path
\* was in the pathMap.
C16_DirMarkerOnlyMkdir ==
    /\ [](pc = "process" /\ cur.file.isDir /\ Parent(cur.path) # <<>> =>
             \A fault \in Faults :
                 LET r == readFileFromZipAndWriteToFilesystem(
                              fsNow, cur.file, cur.path, cur.aw, fault)
                     c == Calls(fsNow, cur.file, cur.path, cur.aw, fault)
                 IN  /\ r.fs.files = files
                     /\ r.err \in {Nil, FilesystemError}
                     /\ Len(c) \in {1, 2}
                     /\ c[1] = Call("directoryCreator", Parent(cur.path), "0755")
                     /\ Len(c) = 2 =>
                           c[2] = Call("directoryCreator", cur.path, "file.Mode()")
                     /\ r.err = Nil =>
                           /\ Len(c) = 2
                           /\ Exists(r.fs, cur.path)
                           /\ ~IsFile(fsNow, cur.path) => cur.path \in r.fs.dirs)
    /\ [][pc = "process" /\ cur.file.isDir /\ Parent(cur.path) # <<>> =>
              /\ files' = files /\ wrote' = wrote /\ expect' = expect
              /\ archErr' \in {archErr, FilesystemError}]_allVars

\* two directory markers of the same path were processed, the second with
\* the path in the pathMap, and the directory is there
C16_Witness ==
    /\ pc = "entry" /\ j = 3 /\ k = 1 /\ errPaths = {}
    /\ targetDir # <<>>
    /\ pathMap = {targetDir \o <<"pages">>}
    /\ targetDir \o <<"pages">> \in dirs

\* a path at or below the target directory
Confined(p) == IsPrefix(targetDir, p) /\ \A i \in 1..Len(p) : p[i] # ".."

\* C17: every directory and every file there is after an extraction is at
\* or below the target directory, whatever the names of the entries.
C17_WritesConfined == \A p \in DOMAIN files \cup dirs \cup wrote : Confined(p)

\* C18: whenever the merge is called for a path (a file entry with
\* fileAlreadyWritten), a regular file written earlier in the run is at that
\* path, with the content the earlier entries of the path give.
C18_MergeFindsEarlierFile ==
    pc = "process" /\ cur.aw /\ ~cur.file.isDir /\ Parent(cur.path) # <<>> =>
        /\ IsFile(fsNow, cur.path)
        /\ cur.path \in wrote
        /\ cur.path \in DOMAIN expect /\ files[cur.path] = expect[cur.path]

====
